---- MODULE Spec2Model ----
(***************************************************************************)
(* infi.projector: the parameter stack of helper/utils, the scoped config  *)
(* editor, and the build / repository command pipelines of the builtin     *)
(* plugins.                                                                *)
(***************************************************************************)
EXTENDS Naturals, Sequences, FiniteSets, TLC

VARIABLES
    BUILDOUT_PARAMETERS, \* helper/utils: the process-wide list of buildout parameters
    scopes,              \* the active buildout_parameters_context scopes, innermost last
    exc,                 \* an exception is propagating through the active scopes
    lastExit,            \* what the scope that exited last did to the list (<<>>: none yet)
    pc,                  \* position of the running command ("idle": none started)
    command,             \* the command method chosen by parse_commandline_arguments
    argv,                \* the options typed on the command line
    arguments,           \* self.arguments: the options docopt reports as set
    outcome,             \* how the process ended ("none": still running)
    fs,                  \* the paths that exist in the project directory
    cfgfile,             \* buildout.cfg on disk
    log,                 \* steps, external commands, file writes of this run, in order
    runs,                \* number of projector processes started so far
    platform,            \* platform.system()
    subdir,              \* the subdirectory repository init/clone would make exists
    cwd,                 \* working directory: "." (where the process started) or "sub"
    fs0,                 \* history: the paths that existed when the process started
    dotted,              \* get_package_namespace: its argument `name`, as a list of characters
    items,               \* get_package_namespace: the items the for loop has still to visit
    namespaces,          \* get_package_namespace: the list being built
    nspc                 \* get_package_namespace: "off", "call", "loop" or "returned"

ctxVars == <<scopes, exc, lastExit>>

cliVars == <<pc, command, argv, arguments, outcome, fs, cfgfile, log, runs, platform,
            subdir, cwd, fs0>>

nsVars == <<dotted, items, namespaces, nspc>>

vars == <<BUILDOUT_PARAMETERS, scopes, exc, lastExit,
          pc, command, argv, arguments, outcome, fs, cfgfile, log, runs, platform,
          subdir, cwd, fs0, dotted, items, namespaces, nspc>>

(***************************************************************************)
(* Bounds                                                                  *)
(***************************************************************************)
MaxDepth == 2       \* nesting depth of scopes in the scope harness
MaxParams == 2      \* length of the parameter list handed to one scope
MaxInner == 2       \* scopes entered one after another inside one scope
MaxRuns == 2        \* projector processes run one after another in one directory

None == "none"

(***************************************************************************)
(* helper/utils: BUILDOUT_PARAMETERS and buildout_parameters_context       *)
(***************************************************************************)
InitialParameters == <<"-s">>

\* the tokens the scope harness hands to buildout_parameters_context
CtxTokens == {"-s", "-n", "buildout:develop="}

Range(s) == {s[i] : i \in 1..Len(s)}

SeqsUpTo(S, n) == UNION {[1..k -> S] : k \in 0..n}

\* list.remove(x): drops the first occurrence of x
RECURSIVE ListRemove(_, _)
ListRemove(list, x) ==
    IF list = <<>> THEN <<>>
    ELSE IF Head(list) = x THEN Tail(list)
    ELSE <<Head(list)>> \o ListRemove(Tail(list), x)

\* [BUILDOUT_PARAMETERS.append(param) for param in parameters
\*                                    if param not in BUILDOUT_PARAMETERS]
RECURSIVE ContextEnter(_, _)
ContextEnter(list, parameters) ==
    IF parameters = <<>> THEN list
    ELSE ContextEnter(IF Head(parameters) \in Range(list)
                          THEN list
                          ELSE Append(list, Head(parameters)),
                      Tail(parameters))

\* mutant: the scope has no finally clause and removes nothing on exit
ContextExitRemovingNothing(list, parameters) == list

\* [BUILDOUT_PARAMETERS.remove(param) for param in parameters
\*                                    if param in BUILDOUT_PARAMETERS]
RECURSIVE ContextExit(_, _)
ContextExit(list, parameters) ==
    IF parameters = <<>> THEN list
    ELSE ContextExit(IF Head(parameters) \in Range(list)
                         THEN ListRemove(list, Head(parameters))
                         ELSE list,
                     Tail(parameters))

(***************************************************************************)
(* The scope harness: `with buildout_parameters_context(p):` blocks nested *)
(* in one another; a with-block exits in LIFO order, normally or with an   *)
(* exception propagating.                                                  *)
(***************************************************************************)
InitCtx ==
    /\ BUILDOUT_PARAMETERS = InitialParameters
    /\ scopes = <<>>
    /\ exc = FALSE
    /\ lastExit = <<>>
    /\ pc = "idle"
    /\ command = None
    /\ argv = {}
    /\ arguments = {}
    /\ outcome = "none"
    /\ fs = {}
    /\ cfgfile = [exists |-> FALSE, store |-> [order |-> <<>>, opts |-> <<>>],
                  verbatim |-> FALSE]
    /\ log = <<>>
    /\ runs = 0
    /\ platform = "Linux"
    /\ subdir = FALSE
    /\ cwd = "."
    /\ fs0 = {}
    /\ dotted = <<>>
    /\ items = <<>>
    /\ namespaces = <<>>
    /\ nspc = "off"

\* entering `with buildout_parameters_context(parameters):`
ScopeEnter ==
    /\ ~exc
    /\ Len(scopes) < MaxDepth
    /\ scopes # <<>> => scopes[Len(scopes)].nested < MaxInner
    /\ \E parameters \in SeqsUpTo(CtxTokens, MaxParams) :
         /\ scopes' = Append(scopes, [parameters |-> parameters,
                                      before |-> BUILDOUT_PARAMETERS,
                                      nested |-> 0,
                                      inner |-> {}])
         /\ BUILDOUT_PARAMETERS' = ContextEnter(BUILDOUT_PARAMETERS, parameters)
    /\ lastExit' = <<>>
    /\ UNCHANGED <<exc, cliVars, nsVars>>

\* the body of the innermost scope raises
ScopeBodyRaises ==
    /\ ~exc
    /\ scopes # <<>>
    /\ exc' = TRUE
    /\ UNCHANGED <<BUILDOUT_PARAMETERS, scopes, lastExit, cliVars, nsVars>>

\* the innermost scope exits (its finally clause), normally or while unwinding;
\* the enclosing scope notes the scope nested in it and the tokens it was given
ScopeExit ==
    /\ scopes # <<>>
    /\ LET n == Len(scopes)
           top == scopes[n]
           after == ContextExit(BUILDOUT_PARAMETERS, top.parameters)
           rest == SubSeq(scopes, 1, n - 1)
       IN /\ BUILDOUT_PARAMETERS' = after
          /\ lastExit' = <<[parameters |-> top.parameters, before |-> top.before,
                            nested |-> top.nested, inner |-> top.inner,
                            after |-> after, raised |-> exc]>>
          /\ scopes' = IF n = 1 THEN <<>>
                       ELSE [rest EXCEPT
                               ![n - 1].nested = @ + 1,
                               ![n - 1].inner = @ \cup Range(top.parameters)
                                                  \cup top.inner]
          /\ exc' = (exc /\ n > 1)
    /\ UNCHANGED <<cliVars, nsVars>>

NextCtx == ScopeEnter \/ ScopeBodyRaises \/ ScopeExit

SpecCtx == InitCtx /\ [][NextCtx]_vars

(***************************************************************************)
(* helper/utils: open_buildout_configfile, a ConfigParser read from        *)
(* buildout.cfg on entry and written back to it on exit                  *)
(***************************************************************************)

\* a ConfigParser: its sections in file order, and each section's options
EmptyStore == [order |-> <<>>, opts |-> <<>>]

CfgFullA ==
    [order |-> <<"buildout", "project", "python-distribution", "setup.py",
                 "development-scripts", "submodule">>,
     opts |-> ("buildout" :> ("download-cache" :> ".cache"))
           @@ ("project" :> ("name" :> "project"))
           @@ ("python-distribution" :> (("recipe" :> "infi.recipe.python")
                                       @@ ("executable" :> "/usr/bin/python")))
           @@ ("setup.py" :> ("recipe" :> "infi.recipe.template.version"))
           @@ ("development-scripts" :> ("recipe" :> "infi.vendata.console_scripts"))
           @@ ("submodule" :> ("recipe" :> "zerokspot.recipe.git"))]

CfgFullB ==
    [order |-> <<"buildout", "project", "python-distribution", "setup.py",
                 "development-scripts">>,
     opts |-> ("buildout" :> (("download-cache" :> ".cache")
                            @@ ("relative-paths" :> "true")))
           @@ ("project" :> ("name" :> "project"))
           @@ ("python-distribution" :> (("recipe" :> "infi.recipe.python")
                                       @@ ("executable" :> "parts/python/bin/python")))
           @@ ("setup.py" :> ("recipe" :> "infi.recipe.template.version"))
           @@ ("development-scripts" :> ("recipe" :> "infi.vendata.console_scripts"))]

\* a configuration without a python-distribution section
CfgNoPython ==
    [order |-> <<"buildout", "setup.py">>,
     opts |-> ("buildout" :> (("download-cache" :> ".cache")
                            @@ ("relative-paths" :> "true")))
           @@ ("setup.py" :> ("recipe" :> "infi.recipe.template.version"))]

\* the states buildout.cfg can be in when the first process starts: written by
\* hand (verbatim: comments and layout as typed), or absent
InitialConfigFiles ==
    {[exists |-> TRUE, store |-> st, verbatim |-> TRUE] :
         st \in {CfgFullA, CfgFullB, CfgNoPython}}
    \cup {[exists |-> FALSE, store |-> EmptyStore, verbatim |-> FALSE]}

\* ConfigParser.has_section / has_option / get / set / sections
has_section(parser, section) == section \in Range(parser.order)

has_option(parser, section, option) ==
    /\ has_section(parser, section)
    /\ option \in DOMAIN parser.opts[section]

get(parser, section, option) == parser.opts[section][option]

set(parser, section, option, value) ==
    [parser EXCEPT !.opts[section] = (option :> value) @@ @]

\* parser.read(filepath): a missing file is skipped and leaves the parser empty
parser_read(file) == IF file.exists THEN file.store ELSE EmptyStore

\* parser.write(fd) on open(filepath, 'w'): the file is created or overwritten
\* with the parser's sections and options, in ConfigParser's own layout
parser_write(parser) == [exists |-> TRUE, store |-> parser, verbatim |-> FALSE]

\* mutant: the write placed after the yield without try/finally
writes_only_on_success(raised) == ~raised

\* open_buildout_configfile's finally clause: the file is written when the
\* scope exits, whether or not the body raised
writes_on_exit(raised) == TRUE

open_buildout_configfile_exit(file, parser, raised) ==
    IF writes_on_exit(raised) THEN parser_write(parser) ELSE file

(***************************************************************************)
(* What one run records, in order                                          *)
(***************************************************************************)
Event(kind, name, params, args, ok) ==
    [kind |-> kind, name |-> name, params |-> params, args |-> args, ok |-> ok]

Step(name) == Event("step", name, <<>>, <<>>, TRUE)

\* open(filepath, 'w') and parser.write at the exit of an open_buildout_configfile scope
WriteEvents(raised) ==
    IF writes_on_exit(raised)
        THEN <<Event("write", "buildout.cfg", <<>>, <<>>, TRUE)>>
        ELSE <<>>

\* execute_with_buildout: bin/buildout + BUILDOUT_PARAMETERS + args
execute_with_buildout(params, args, ok) ==
    Event("exec", "bin/buildout", params, args, ok)

\* execute_with_python: the interpreter (and -S outside a virtualenv) + args
execute_with_python(args, ok) == Event("exec", "python", <<>>, args, ok)

\* infi.execute.execute_assert_success of a plain command line
execute_assert_success(name, args, ok) == Event("exec", name, <<>>, args, ok)

Steps(l) == SelectSeq(l, LAMBDA e : e.kind = "step")
Execs(l) == SelectSeq(l, LAMBDA e : e.kind = "exec")
Writes(l) == SelectSeq(l, LAMBDA e : e.kind = "write")
StepNames(l) == [i \in DOMAIN Steps(l) |-> Steps(l)[i].name]

(***************************************************************************)
(* plugins/builtins/build: USAGE and parse_commandline_arguments           *)
(***************************************************************************)

\* the options of `projector build scripts` in USAGE
ScriptsOptions ==
    {"--clean", "--force-bootstrap", "--no-submodules", "--no-scripts",
     "--no-readline", "--use-isolated-python", "--newest", "--offline"}

\* the options of `projector build relocate` in USAGE
RelocateOptions == {"--absolute", "--relative", "--commit-changes"}

\* the options BuildPlugin.scripts looks up in self.arguments
ScriptsReadOptions ==
    {"--clean", "--no-submodules", "--no-setup-py", "--no-scripts", "--no-readline"}

\* the command lines tried: every combination of the options of the usage
\* line, and every combination of the options scripts() looks up
TypedCommandLines(cmd) ==
    IF cmd = "scripts"
        THEN (SUBSET ScriptsOptions) \cup (SUBSET ScriptsReadOptions)
        ELSE SUBSET RelocateOptions

\* docopt(USAGE): the typed options must all belong to the command's usage
\* line, and of a group ( a | b ) at most one alternative may be typed
docopt_matches(cmd, typed) ==
    IF cmd = "scripts"
        THEN /\ typed \subseteq ScriptsOptions
             /\ ~({"--newest", "--offline"} \subseteq typed)
        ELSE /\ typed \subseteq RelocateOptions
             /\ ~({"--absolute", "--relative"} \subseteq typed)

BuildCommands == {"scripts", "relocate"}

FirstStep(cmd) == IF cmd = "scripts" THEN "clean_build" ELSE cmd

\* a projector process is started with a build command: docopt parses the
\* command line against USAGE, assertions.requires_repository checks the
\* working directory, parse_commandline_arguments picks the method
BuildDispatch ==
    /\ pc = "idle"
    /\ \E cmd \in BuildCommands, inRepository \in BOOLEAN :
       \E typed \in TypedCommandLines(cmd) :
         /\ argv' = typed
         /\ command' = cmd
         /\ IF ~docopt_matches(cmd, typed)
               THEN /\ arguments' = {}
                    /\ outcome' = "usage"
                    /\ pc' = "done"
               ELSE IF ~inRepository
               THEN /\ arguments' = typed
                    /\ outcome' = "SystemExit1"
                    /\ pc' = "done"
               ELSE /\ arguments' = typed
                    /\ outcome' = "none"
                    /\ pc' = FirstStep(cmd)
    /\ runs' = runs + 1
    /\ fs0' = fs
    /\ UNCHANGED <<BUILDOUT_PARAMETERS, fs, cfgfile, log, platform, subdir, cwd, ctxVars, nsVars>>

\* the process has ended; the next one starts with a fresh interpreter, so the
\* module-level BUILDOUT_PARAMETERS is the initial list again
NewProcess ==
    /\ pc = "done"
    /\ runs < MaxRuns
    /\ pc' = "idle"
    /\ command' = None
    /\ argv' = {}
    /\ arguments' = {}
    /\ outcome' = "none"
    /\ log' = <<>>
    /\ BUILDOUT_PARAMETERS' = InitialParameters
    /\ UNCHANGED <<fs, cfgfile, runs, platform, subdir, cwd, fs0, ctxVars, nsVars>>

(***************************************************************************)
(* plugins/builtins/build: the steps of BuildPlugin.scripts                *)
(***************************************************************************)

\* buildout_newest_or_offline_context: the parameters it activates
newest_or_offline_parameters(args) ==
    (IF "--newest" \in args THEN <<"-n">> ELSE <<>>)
    \o (IF "--offline" \in args THEN <<"-o">> ELSE <<>>)

\* mutant: an exception leaves the scope without its parameters being removed
UnwindLeavingParameters(params) == params

\* an exception leaving the body of `with self.buildout_newest_or_offline_context()`
\* runs the finally clause of its buildout_parameters_context
Unwind(params) == ContextExit(params, newest_or_offline_parameters(arguments))

\* clean_build: files_to_clean and directories_to_clean
CleanedPaths == {"setup.py", "bin/buildout", "eggs", "develop-eggs"}

clean_build ==
    /\ pc = "clean_build"
    /\ IF "--clean" \in arguments
          THEN /\ fs' = fs \ CleanedPaths
               /\ log' = Append(log, Step("clean_build"))
          ELSE UNCHANGED <<fs, log>>
    /\ pc' = "create_cache_directories"
    /\ UNCHANGED <<BUILDOUT_PARAMETERS, command, argv, arguments, outcome, cfgfile,
                   runs, platform, subdir, cwd, fs0, ctxVars, nsVars>>

\* os.path.join(cachedir, "dist")
cache_dist(cachedir) == IF cachedir = ".cache" THEN ".cache/dist" ELSE "dist"

\* mutant: makedirs is called without looking whether the directory exists
makedirs_unconditionally(files, dist) == TRUE

\* `if not exists(cache_dist)`
needs_makedirs(files, dist) == dist \notin files

\* create_cache_directories on the paths files and the configuration file:
\* the config scope (read; get of buildout/download-cache, which raises when
\* the section or the option is missing; written on exit), then makedirs of
\* the dist directory if it does not exist
cache_directories_step(files, file) ==
    LET parser == parser_read(file)
        raised == ~has_option(parser, "buildout", "download-cache")
        dist == IF raised THEN None
                ELSE cache_dist(get(parser, "buildout", "download-cache"))
    IN [file |-> open_buildout_configfile_exit(file, parser, raised),
        raised |-> raised,
        error |-> IF has_section(parser, "buildout")
                     THEN "NoOptionError" ELSE "NoSectionError",
        dist |-> dist,
        made |-> ~raised /\ needs_makedirs(files, dist),
        files |-> IF raised THEN files ELSE files \cup {dist}]

create_cache_directories ==
    /\ pc = "create_cache_directories"
    /\ LET r == cache_directories_step(fs, cfgfile)
       IN /\ cfgfile' = r.file
          /\ fs' = r.files
          /\ log' = log \o <<Step("create_cache_directories")>>
                        \o WriteEvents(r.raised)
                        \o (IF r.made
                               THEN <<Event("makedirs", r.dist, <<>>, <<>>, TRUE)>>
                               ELSE <<>>)
          /\ outcome' = IF r.raised THEN r.error ELSE outcome
          /\ pc' = IF r.raised THEN "done" ELSE "bootstrap_if_necessary"
    /\ UNCHANGED <<BUILDOUT_PARAMETERS, command, argv, arguments, runs, platform, subdir, cwd, fs0, ctxVars, nsVars>>

\* mutant: --force-bootstrap is ignored
needs_bootstrap_ignoring_force(files, args) == "bin/buildout" \notin files

\* mutant: bootstrap.py is run on every pass
needs_bootstrap_always(files, args) == TRUE

\* the condition under which bootstrap_if_necessary runs bootstrap.py
needs_bootstrap(files, args) ==
    "bin/buildout" \notin files \/ "--force-bootstrap" \in args

bootstrap_if_necessary ==
    /\ pc = "bootstrap_if_necessary"
    /\ \E ok \in BOOLEAN :
         IF "bootstrap.py" \notin fs
            THEN /\ log' = Append(log, Step("bootstrap_if_necessary"))
                 /\ outcome' = "SystemExit1"
                 /\ pc' = "done"
                 /\ fs' = fs
            ELSE IF needs_bootstrap(fs, arguments)
            THEN /\ log' = log \o <<Step("bootstrap_if_necessary"),
                                    execute_with_python(<<"bootstrap.py", "-d", "-t">>, ok)>>
                 /\ fs' = IF ok THEN fs \cup {"bin/buildout"} ELSE fs
                 /\ outcome' = IF ok THEN outcome ELSE "ExecutionError"
                 /\ pc' = IF ok THEN "buildout_newest_or_offline_context" ELSE "done"
            ELSE /\ log' = Append(log, Step("bootstrap_if_necessary"))
                 /\ pc' = "buildout_newest_or_offline_context"
                 /\ UNCHANGED <<fs, outcome>>
    /\ UNCHANGED <<BUILDOUT_PARAMETERS, command, argv, arguments, cfgfile, runs,
                   platform, subdir, cwd, fs0, ctxVars, nsVars>>

\* entering `with self.buildout_newest_or_offline_context():`
buildout_newest_or_offline_context ==
    /\ pc = "buildout_newest_or_offline_context"
    /\ BUILDOUT_PARAMETERS' =
           ContextEnter(BUILDOUT_PARAMETERS, newest_or_offline_parameters(arguments))
    /\ pc' = "submodule_update"
    /\ UNCHANGED <<command, argv, arguments, outcome, fs, cfgfile, log, runs,
                   platform, subdir, cwd, fs0, ctxVars, nsVars>>

\* install_sections_by_recipe: the sections whose recipe option equals recipe
sections_to_install(parser, recipe) ==
    SelectSeq(parser.order,
              LAMBDA section : /\ has_option(parser, section, "recipe")
                               /\ get(parser, section, "recipe") = recipe)

\* mutant: the failure of the bin/buildout install is swallowed
install_sections_by_recipe_swallowing(params, recipe, ok) ==
    LET sections == sections_to_install(parser_read(cfgfile), recipe)
    IN [events |-> WriteEvents(FALSE)
                   \o (IF sections = <<>> THEN <<>>
                       ELSE <<execute_with_buildout(params, <<"install">> \o sections, ok)>>),
        ran |-> sections # <<>>,
        failed |-> FALSE]

\* install_sections_by_recipe under the parameters params: the config scope
\* (read, then written on exit), then one bin/buildout install of the sections
\* found, if any; ok is the exit status of that command
install_sections_by_recipe(params, recipe, ok) ==
    LET sections == sections_to_install(parser_read(cfgfile), recipe)
    IN [events |-> WriteEvents(FALSE)
                   \o (IF sections = <<>> THEN <<>>
                       ELSE <<execute_with_buildout(params, <<"install">> \o sections, ok)>>),
        ran |-> sections # <<>>,
        failed |-> sections # <<>> /\ ~ok]

\* what a successful bin/buildout install of a recipe's sections leaves on disk
Installed(recipe) ==
    IF recipe = "infi.recipe.template.version" THEN {"setup.py"}
    ELSE IF recipe = "infi.vendata.console_scripts" THEN {"eggs", "develop-eggs"}
    ELSE {}

\* submodule_update and create_setup_py: install_sections_by_recipe inside
\* buildout_parameters_context(['buildout:develop=']); scripts() skips the step
\* when its option is set
DevelopStep(name, skip, recipe, next) ==
    /\ pc = name
    /\ IF skip \in arguments
          THEN /\ pc' = next
               /\ UNCHANGED <<BUILDOUT_PARAMETERS, outcome, fs, cfgfile, log>>
          ELSE \E ok \in BOOLEAN :
                 LET inner == ContextEnter(BUILDOUT_PARAMETERS, <<"buildout:develop=">>)
                     r == install_sections_by_recipe(inner, recipe, ok)
                     after == ContextExit(inner, <<"buildout:develop=">>)
                 IN /\ cfgfile' = open_buildout_configfile_exit(
                                      cfgfile, parser_read(cfgfile), FALSE)
                    /\ log' = log \o <<Step(name)>> \o r.events
                    /\ fs' = IF r.ran /\ ok THEN fs \cup Installed(recipe) ELSE fs
                    /\ IF r.failed
                          THEN /\ BUILDOUT_PARAMETERS' = Unwind(after)
                               /\ outcome' = "ExecutionError"
                               /\ pc' = "done"
                          ELSE /\ BUILDOUT_PARAMETERS' = after
                               /\ outcome' = outcome
                               /\ pc' = next
    /\ UNCHANGED <<command, argv, arguments, runs, platform, subdir, cwd, fs0, ctxVars, nsVars>>

submodule_update ==
    DevelopStep("submodule_update", "--no-submodules", "zerokspot.recipe.git",
                "create_setup_py")

create_setup_py ==
    DevelopStep("create_setup_py", "--no-setup-py", "infi.recipe.template.version",
                "create_scripts")

\* mutant: --newest does not refresh the isolated python
installs_python_distribution_when_missing(args, files) ==
    "--use-isolated-python" \in args /\ "parts/python" \notin files

\* create_scripts: `buildout install python-distribution` is run when
\* --use-isolated-python is set and (--newest is set or parts/python/bin/python
\* is not there)
installs_python_distribution(args, files) ==
    /\ "--use-isolated-python" \in args
    /\ ("--newest" \in args \/ "parts/python" \notin files)

\* assertions.assert_buildout_executable_exists passes
assert_buildout_executable_exists(files) == "bin/buildout" \in files

\* assertions.is_buildout_executable_using_isolated_python, and what it found
is_buildout_executable_using_isolated_python(found) ==
    Event("check", "is_buildout_executable_using_isolated_python", <<>>, <<>>, found)

\* create_scripts: the python-distribution install when the isolated python
\* is asked for and (--newest or it is missing), then the console-script
\* install inside buildout_use_custom_python
create_scripts ==
    /\ pc = "create_scripts"
    /\ IF "--no-scripts" \in arguments
          THEN /\ pc' = "install_readline"
               /\ UNCHANGED <<BUILDOUT_PARAMETERS, outcome, fs, cfgfile, log>>
          ELSE \E okPython, okInstall, okBootstrap, keepsBuildout, usesIsolated \in BOOLEAN :
                 LET isolated == "--use-isolated-python" \in arguments
                     installPython == installs_python_distribution(arguments, fs)
                     e1 == IF installPython
                              THEN <<execute_with_buildout(BUILDOUT_PARAMETERS,
                                         <<"install", "python-distribution">>, okPython)>>
                              ELSE <<>>
                     failed1 == installPython /\ ~okPython
                     fs1 == IF installPython /\ okPython
                               THEN fs \cup {"parts/python"} ELSE fs
                     \* buildout_use_custom_python: the body runs bare with the
                     \* isolated python, inside ['buildout:python=buildout'] without
                     inner == IF isolated THEN BUILDOUT_PARAMETERS
                              ELSE ContextEnter(BUILDOUT_PARAMETERS,
                                                <<"buildout:python=buildout">>)
                     r == install_sections_by_recipe(inner, "infi.vendata.console_scripts",
                                                     okInstall)
                     after == IF isolated THEN inner
                              ELSE ContextExit(inner, <<"buildout:python=buildout">>)
                     fs2 == IF r.ran /\ okInstall
                               THEN (fs1 \cup Installed("infi.vendata.console_scripts"))
                                    \ (IF keepsBuildout THEN {} ELSE {"bin/buildout"})
                               ELSE fs1
                     \* after the body, with the isolated python only:
                     \* assert_buildout_executable_exists, then bootstrap again inside
                     \* ['buildout:python=buildout'] if bin/buildout uses the isolated python
                     failedAssert == isolated /\ ~assert_buildout_executable_exists(fs2)
                     rebootstrap == isolated /\ ~failedAssert /\ usesIsolated
                     e3 == (IF isolated /\ ~failedAssert
                               THEN <<is_buildout_executable_using_isolated_python(
                                          usesIsolated)>>
                               ELSE <<>>)
                           \o (IF rebootstrap
                                  THEN <<execute_with_python(<<"bootstrap.py", "-d", "-t">>,
                                                             okBootstrap)>>
                                  ELSE <<>>)
                     failed3 == rebootstrap /\ ~okBootstrap
                 IN IF failed1
                       THEN /\ log' = log \o <<Step("create_scripts")>> \o e1
                            /\ BUILDOUT_PARAMETERS' = Unwind(BUILDOUT_PARAMETERS)
                            /\ outcome' = "ExecutionError"
                            /\ pc' = "done"
                            /\ UNCHANGED <<fs, cfgfile>>
                       ELSE /\ log' = log \o <<Step("create_scripts")>> \o e1 \o r.events
                                          \o (IF r.failed THEN <<>> ELSE e3)
                            /\ cfgfile' = open_buildout_configfile_exit(
                                              cfgfile, parser_read(cfgfile), FALSE)
                            /\ fs' = fs2
                            /\ IF r.failed \/ failed3
                                  THEN /\ BUILDOUT_PARAMETERS' = Unwind(after)
                                       /\ outcome' = "ExecutionError"
                                       /\ pc' = "done"
                                  ELSE IF failedAssert
                                  THEN /\ BUILDOUT_PARAMETERS' = Unwind(after)
                                       /\ outcome' = "SystemExit1"
                                       /\ pc' = "done"
                                  ELSE /\ BUILDOUT_PARAMETERS' = after
                                       /\ outcome' = outcome
                                       /\ pc' = "install_readline"
    /\ UNCHANGED <<command, argv, arguments, runs, platform, subdir, cwd, fs0, ctxVars, nsVars>>

\* get_readline_module
get_readline_module(system) ==
    IF system = "Darwin" THEN "readline"
    ELSE IF system = "Windows" THEN "pyreadline"
    ELSE None

\* install_readline: nothing without a module for the platform; is_module_installed
\* runs `bin/python -c import <module>` and takes its failure to mean "not
\* installed"; then `bin/easy_install <module>`
install_readline ==
    /\ pc = "install_readline"
    /\ IF "--no-readline" \in arguments
          THEN /\ pc' = "scripts_return"
               /\ UNCHANGED <<BUILDOUT_PARAMETERS, outcome, log>>
          ELSE \E installed, ok \in BOOLEAN :
                 LET module == get_readline_module(platform)
                     probe == execute_assert_success(
                                  "bin/python", <<"-c", "import", module>>, installed)
                     install == execute_assert_success("bin/easy_install", <<module>>, ok)
                 IN IF module = None
                       THEN /\ log' = Append(log, Step("install_readline"))
                            /\ pc' = "scripts_return"
                            /\ UNCHANGED <<BUILDOUT_PARAMETERS, outcome>>
                       ELSE IF installed
                       THEN /\ log' = log \o <<Step("install_readline"), probe>>
                            /\ pc' = "scripts_return"
                            /\ UNCHANGED <<BUILDOUT_PARAMETERS, outcome>>
                       ELSE /\ log' = log \o <<Step("install_readline"), probe, install>>
                            /\ IF ok
                                  THEN /\ pc' = "scripts_return"
                                       /\ UNCHANGED <<BUILDOUT_PARAMETERS, outcome>>
                                  ELSE /\ BUILDOUT_PARAMETERS' = Unwind(BUILDOUT_PARAMETERS)
                                       /\ outcome' = "ExecutionError"
                                       /\ pc' = "done"
    /\ UNCHANGED <<command, argv, arguments, fs, cfgfile, runs, platform, subdir, cwd, fs0, ctxVars, nsVars>>

\* the body of `with self.buildout_newest_or_offline_context():` ends, the scope
\* exits, scripts() returns and the process ends with status 0
scripts_return ==
    /\ pc = "scripts_return"
    /\ BUILDOUT_PARAMETERS' = Unwind(BUILDOUT_PARAMETERS)
    /\ outcome' = "ok"
    /\ pc' = "done"
    /\ UNCHANGED <<command, argv, arguments, fs, cfgfile, log, runs, platform, subdir, cwd, fs0, ctxVars, nsVars>>

(***************************************************************************)
(* plugins/builtins/build: BuildPlugin.relocate                            *)
(***************************************************************************)
relative_python == "parts/python/bin/python"
absolute_python == "${buildout:directory}/parts/python/bin/python"

\* the value relocate stores in buildout/relative-paths
relative_paths_value(relative) == IF relative THEN "true" ELSE "false"

\* mutant: the interpreter path does not follow --relative
executable_always_relative(relative) == relative_python

\* the value relocate stores in python-distribution/executable
executable_value(relative) == IF relative THEN relative_python ELSE absolute_python

\* repository.add / repository.commit happen when --commit-changes is set
commits_changes(args) == "--commit-changes" \in args

relocate ==
    /\ pc = "relocate"
    /\ \E okAdd, okCommit \in BOOLEAN :
         LET relative == "--relative" \in arguments
             parser0 == parser_read(cfgfile)
             raised1 == ~has_section(parser0, "buildout")
             parser1 == set(parser0, "buildout", "relative-paths",
                            relative_paths_value(relative))
             raised2 == ~raised1 /\ ~has_section(parser1, "python-distribution")
             parser2 == set(parser1, "python-distribution", "executable",
                            executable_value(relative))
             raised == raised1 \/ raised2
             parser == IF raised1 THEN parser0 ELSE IF raised2 THEN parser1 ELSE parser2
             commit == ~raised /\ commits_changes(arguments)
             vcs == IF ~commit THEN <<>>
                    ELSE <<Event("vcs", "add", <<>>, <<"buildout.cfg">>, okAdd)>>
                         \o (IF okAdd
                                THEN <<Event("vcs", "commit", <<>>,
                                             <<IF relative
                                                  THEN "Changing shebang to relative paths"
                                                  ELSE "Changing shebang to absolute paths">>,
                                             okCommit)>>
                                ELSE <<>>)
         IN /\ cfgfile' = open_buildout_configfile_exit(cfgfile, parser, raised)
            /\ log' = log \o <<Step("relocate")>> \o WriteEvents(raised) \o vcs
            /\ outcome' = IF raised THEN "NoSectionError"
                          ELSE IF commit /\ ~(okAdd /\ okCommit) THEN "GitException"
                          ELSE "ok"
    /\ pc' = "done"
    /\ UNCHANGED <<BUILDOUT_PARAMETERS, command, argv, arguments, fs, runs, platform,
                   subdir, cwd, fs0, ctxVars, nsVars>>

(***************************************************************************)
(* plugins/builtins/repository: RepositoryPlugin                           *)
(***************************************************************************)
RepositoryCommands == {"init", "clone"}

\* the options of `projector repository init` / `clone` in USAGE
RepositoryOptions(cmd) == IF cmd = "init" THEN {"--mkdir"} ELSE {}

\* a projector process is started with a repository command:
\* parse_commandline_arguments picks init or clone
RepositoryDispatch ==
    /\ pc = "idle"
    /\ \E cmd \in RepositoryCommands :
       \E typed \in SUBSET RepositoryOptions(cmd) :
         /\ argv' = typed
         /\ arguments' = typed
         /\ command' = cmd
         /\ pc' = cmd
    /\ runs' = runs + 1
    /\ fs0' = fs
    /\ UNCHANGED <<BUILDOUT_PARAMETERS, outcome, fs, cfgfile, log, platform, subdir, cwd,
                   ctxVars, nsVars>>

\* mutant: clone enters the subdirectory scope without forcing --mkdir
clone_without_mkdir ==
    /\ pc = "clone"
    /\ pc' = "_create_subdir_if_necessary"
    /\ UNCHANGED <<BUILDOUT_PARAMETERS, command, argv, arguments, outcome, fs, cfgfile,
                   log, runs, platform, subdir, cwd, fs0, ctxVars, nsVars>>

\* clone: self.arguments['--mkdir'] = True, then the subdirectory scope
clone ==
    /\ pc = "clone"
    /\ arguments' = arguments \cup {"--mkdir"}
    /\ pc' = "_create_subdir_if_necessary"
    /\ UNCHANGED <<BUILDOUT_PARAMETERS, command, argv, outcome, fs, cfgfile, log, runs,
                   platform, subdir, cwd, fs0, ctxVars, nsVars>>

\* init: straight into the subdirectory scope
init ==
    /\ pc = "init"
    /\ pc' = "_create_subdir_if_necessary"
    /\ UNCHANGED <<BUILDOUT_PARAMETERS, command, argv, arguments, outcome, fs, cfgfile,
                   log, runs, platform, subdir, cwd, fs0, ctxVars, nsVars>>

\* the first step inside `with self._create_subdir_if_necessary():`
FirstInside(cmd) == IF cmd = "init" THEN "_exit_if_dotgit_exists" ELSE "git_clone"

\* entering _create_subdir_if_necessary: nothing without --mkdir; otherwise exit 1
\* if the directory exists, else makedirs and chdir into it
create_subdir_if_necessary ==
    /\ pc = "_create_subdir_if_necessary"
    /\ IF "--mkdir" \notin arguments
          THEN /\ pc' = FirstInside(command)
               /\ UNCHANGED <<outcome, log, subdir, cwd>>
          ELSE IF subdir
          THEN /\ outcome' = "SystemExit1"
               /\ pc' = "done"
               /\ UNCHANGED <<log, subdir, cwd>>
          ELSE /\ subdir' = TRUE
               /\ cwd' = "sub"
               /\ log' = Append(log, Event("makedirs", "sub", <<>>, <<>>, TRUE))
               /\ pc' = FirstInside(command)
               /\ outcome' = outcome
    /\ UNCHANGED <<BUILDOUT_PARAMETERS, command, argv, arguments, fs, cfgfile, runs,
                   platform, fs0, ctxVars, nsVars>>

\* mutant: the .git check is not made
dotgit_unchecked == FALSE

\* os.path.exists('.git') in the working directory (a directory just made is empty)
dotgit_exists == cwd = "." /\ ".git" \in fs

\* _exit_if_dotgit_exists
exit_if_dotgit_exists ==
    /\ pc = "_exit_if_dotgit_exists"
    /\ log' = Append(log, Step("_exit_if_dotgit_exists"))
    /\ IF dotgit_exists
          THEN /\ outcome' = "SystemExit1"
               /\ pc' = "done"
               /\ cwd' = "."
          ELSE /\ pc' = "git_init"
               /\ UNCHANGED <<outcome, cwd>>
    /\ UNCHANGED <<BUILDOUT_PARAMETERS, command, argv, arguments, fs, cfgfile, runs,
                   platform, subdir, fs0, ctxVars, nsVars>>

\* a version-control call: name, and whether it succeeded
Vcs(name, ok) == Event("vcs", name, <<>>, <<>>, ok)

\* the calls ops, made in order until one raises: n of them succeed
VcsCalls(ops, n) ==
    [i \in 1..(IF n < Len(ops) THEN n + 1 ELSE n) |-> Vcs(ops[i], i <= n)]

\* a step made of version-control calls only; an exception of one of them leaves
\* the subdirectory scope (chdir back) and ends the process
VcsStep(name, ops, next, created) ==
    /\ pc = name
    /\ \E n \in 0..Len(ops) :
         /\ log' = log \o <<Step(name)>> \o VcsCalls(ops, n)
         /\ IF n < Len(ops)
               THEN /\ outcome' = "GitException"
                    /\ pc' = "done"
                    /\ cwd' = "."
                    /\ fs' = fs
               ELSE /\ pc' = next
                    /\ fs' = IF cwd = "." THEN fs \cup created ELSE fs
                    /\ UNCHANGED <<outcome, cwd>>
    /\ UNCHANGED <<BUILDOUT_PARAMETERS, command, argv, arguments, cfgfile, runs,
                   platform, subdir, fs0, ctxVars, nsVars>>

git_init ==
    VcsStep("git_init", <<"init", "addRemote">>, "gitflow_init", {".git"})

git_clone ==
    VcsStep("git_clone", <<"clone">>, "git_checkout_develop", {".git"})

\* gitflow_init: the last step of clone, followed by release_initial_version in init
gitflow_init ==
    /\ pc = "gitflow_init"
    /\ \E ok \in BOOLEAN :
         /\ log' = log \o <<Step("gitflow_init"), Vcs("gitflow.init", ok)>>
         /\ IF ~ok
               THEN /\ outcome' = "GitException"
                    /\ pc' = "done"
                    /\ cwd' = "."
               ELSE IF command = "clone"
               THEN /\ outcome' = "ok"
                    /\ pc' = "done"
                    /\ cwd' = "."
               ELSE /\ pc' = "release_initial_version"
                    /\ UNCHANGED <<outcome, cwd>>
    /\ UNCHANGED <<BUILDOUT_PARAMETERS, command, argv, arguments, fs, cfgfile, runs,
                   platform, subdir, fs0, ctxVars, nsVars>>

\* release_version_with_git_flow("v0")
release_initial_version ==
    VcsStep("release_initial_version",
            <<"gitflow.create", "gitflow.finish", "checkout", "commit", "createTag">>,
            "git_checkout_develop", {})

\* git_checkout_develop: repository.checkout("develop"), not guarded
git_checkout_develop ==
    VcsStep("git_checkout_develop", <<"checkout">>,
            IF command = "clone" THEN "gitflow_init" ELSE "add_initial_files", {})

\* the files of the project skeleton
SkeletonFiles == {"bootstrap.py", "buildout.cfg", ".gitignore"}

\* the skeleton's buildout.cfg
SkeletonConfig == [exists |-> TRUE, store |-> CfgFullA, verbatim |-> TRUE]

\* add_initial_files: every skeleton file is copied into the working directory
add_initial_files ==
    /\ pc = "add_initial_files"
    /\ log' = log \o <<Step("add_initial_files")>>
                  \o <<Event("copy", "bootstrap.py", <<>>, <<>>, TRUE),
                       Event("copy", "buildout.cfg", <<>>, <<>>, TRUE),
                       Event("copy", ".gitignore", <<>>, <<>>, TRUE)>>
    /\ IF cwd = "."
          THEN /\ fs' = fs \cup (SkeletonFiles \ {"buildout.cfg"})
               /\ cfgfile' = SkeletonConfig
          ELSE UNCHANGED <<fs, cfgfile>>
    /\ pc' = "set_buildout_config"
    /\ UNCHANGED <<BUILDOUT_PARAMETERS, command, argv, arguments, outcome, runs,
                   platform, subdir, cwd, fs0, ctxVars, nsVars>>

\* the keyword arguments open_buildout_configfile accepts
ConfigfileKeywords == {"filepath"}

\* set_buildout_config calls open_buildout_configfile(write_on_exit=True); the
\* function has no such parameter, the call raises TypeError before the scope
\* is entered, and init ends there: generate_src, append_to_gitignore and
\* commit_all are never reached
set_buildout_config ==
    /\ pc = "set_buildout_config"
    /\ "write_on_exit" \notin ConfigfileKeywords
    /\ log' = Append(log, Step("set_buildout_config"))
    /\ outcome' = "TypeError"
    /\ pc' = "done"
    /\ cwd' = "."
    /\ UNCHANGED <<BUILDOUT_PARAMETERS, command, argv, arguments, fs, cfgfile, runs,
                   platform, subdir, fs0, ctxVars, nsVars>>

(***************************************************************************)
(* plugins/builtins/repository: get_package_namespace, on names given as   *)
(* lists of characters                                                     *)
(***************************************************************************)
MaxNameLen == 5     \* length of the names handed to get_package_namespace

\* the characters the names are made of
NameChars == {"a", "b", "."}

\* the part of s before its first sep (all of s without one)
RECURSIVE UpToSep(_, _)
UpToSep(s, sep) ==
    IF s = <<>> \/ Head(s) = sep THEN <<>>
    ELSE <<Head(s)>> \o UpToSep(Tail(s), sep)

\* str.split(sep): the pieces between the separators, empty pieces included
RECURSIVE split(_, _)
split(s, sep) ==
    LET first == UpToSep(s, sep)
    IN IF Len(first) = Len(s) THEN <<first>>
       ELSE <<first>> \o split(SubSeq(s, Len(first) + 2, Len(s)), sep)

\* sep.join(list)
RECURSIVE join(_, _)
join(sep, list) ==
    IF list = <<>> THEN <<>>
    ELSE IF Len(list) = 1 THEN list[1]
    ELSE list[1] \o <<sep>> \o join(sep, Tail(list))

\* list[:-1]
AllButLast(list) == SubSeq(list, 1, Len(list) - 1)

\* mutant: the item is appended without the namespace before it
namespace_entry_unjoined(list, item) == item

\* '.'.join([namespaces[-1], item]) if namespaces else item
namespace_entry(list, item) ==
    IF list # <<>> THEN join(".", <<list[Len(list)], item>>) ELSE item

\* get_package_namespace(name) is called: namespaces = [] and the loop is set
\* over name.split('.')[:-1]
get_package_namespace ==
    /\ nspc = "call"
    /\ namespaces' = <<>>
    /\ items' = AllButLast(split(dotted, "."))
    /\ nspc' = "loop"
    /\ UNCHANGED <<dotted, BUILDOUT_PARAMETERS, ctxVars, cliVars>>

\* one pass of the for loop
namespaces_append ==
    /\ nspc = "loop"
    /\ items # <<>>
    /\ namespaces' = Append(namespaces, namespace_entry(namespaces, Head(items)))
    /\ items' = Tail(items)
    /\ UNCHANGED <<dotted, nspc, BUILDOUT_PARAMETERS, ctxVars, cliVars>>

\* the loop is over: return namespaces
namespaces_return ==
    /\ nspc = "loop"
    /\ items = <<>>
    /\ nspc' = "returned"
    /\ UNCHANGED <<dotted, items, namespaces, BUILDOUT_PARAMETERS, ctxVars, cliVars>>

\* get_package_namespace is handed a name
InitNamespace ==
    /\ InitCtx!1 /\ InitCtx!2 /\ InitCtx!3 /\ InitCtx!4
    /\ pc = "idle" /\ command = None /\ argv = {} /\ arguments = {}
    /\ outcome = "none" /\ fs = {} /\ cfgfile = [exists |-> FALSE, store |-> EmptyStore, verbatim |-> FALSE]
    /\ log = <<>> /\ runs = 0 /\ platform = "Linux" /\ subdir = FALSE /\ cwd = "."
    /\ fs0 = {}
    /\ dotted \in SeqsUpTo(NameChars, MaxNameLen)
    /\ items = <<>>
    /\ namespaces = <<>>
    /\ nspc = "call"

NextNamespace == get_package_namespace \/ namespaces_append \/ namespaces_return

SpecNamespace == InitNamespace /\ [][NextNamespace]_vars

(***************************************************************************)
(* The command-line tool: processes run one after another                  *)
(***************************************************************************)
Platforms == {"Darwin", "Windows", "Linux"}

\* what may exist in the project directory before the first process starts
InitialPaths == {"bootstrap.py", "bin/buildout"}

Init ==
    /\ BUILDOUT_PARAMETERS = InitialParameters
    /\ scopes = <<>>
    /\ exc = FALSE
    /\ lastExit = <<>>
    /\ pc = "idle"
    /\ command = None
    /\ argv = {}
    /\ arguments = {}
    /\ outcome = "none"
    /\ fs \in SUBSET InitialPaths
    /\ cfgfile \in InitialConfigFiles
    /\ log = <<>>
    /\ runs = 0
    /\ platform \in Platforms
    /\ subdir = FALSE
    /\ cwd = "."
    /\ fs0 = fs
    /\ dotted = <<>>
    /\ items = <<>>
    /\ namespaces = <<>>
    /\ nspc = "off"

Next ==
    \/ BuildDispatch
    \/ NewProcess
    \/ clean_build
    \/ create_cache_directories
    \/ bootstrap_if_necessary
    \/ buildout_newest_or_offline_context
    \/ submodule_update
    \/ create_setup_py
    \/ create_scripts
    \/ install_readline
    \/ scripts_return
    \/ relocate
    \/ RepositoryDispatch
    \/ init
    \/ clone
    \/ create_subdir_if_necessary
    \/ exit_if_dotgit_exists
    \/ git_init
    \/ git_clone
    \/ gitflow_init
    \/ release_initial_version
    \/ git_checkout_develop
    \/ add_initial_files
    \/ set_buildout_config

Spec == Init /\ [][Next]_vars

(***************************************************************************)
(* Properties of the parameter stack                                       *)
(***************************************************************************)

\* C1: a token that is in BUILDOUT_PARAMETERS when a scope naming it is entered
\* is still in BUILDOUT_PARAMETERS after that scope has exited.
C1_PresentTokenSurvivesScope ==
    \A i \in DOMAIN lastExit :
        \A t \in Range(lastExit[i].parameters) \cap Range(lastExit[i].before) :
            t \in Range(lastExit[i].after)

\* C2: a scope with tokens T2 around one nested scope with tokens T1, T1 and T2
\* disjoint, exited in LIFO order (the inner body ending normally or raising),
\* leaves BUILDOUT_PARAMETERS equal, in content and order, to what it was
\* before the outer scope was entered.
C2_NestedDisjointScopesRestore ==
    \A i \in DOMAIN lastExit :
        (/\ lastExit[i].nested = 1
         /\ lastExit[i].inner # {}
         /\ lastExit[i].inner \cap Range(lastExit[i].parameters) = {})
            => lastExit[i].after = lastExit[i].before

(***************************************************************************)
(* Properties of the scoped config editor and the command pipelines        *)
(***************************************************************************)
Ran(name) == \E i \in DOMAIN log : log[i] = Step(name)

LastOf(l) == l[Len(l)]

\* C3: the scope relocate opens to change the configuration writes the parser
\* back to buildout.cfg exactly once, when the scope exits and before anything
\* that follows it, whether the body ended normally or raised; what is written
\* holds the settings made before the raise.
C3_WriteBackOncePerScope ==
    (command = "relocate" /\ pc = "done" /\ Ran("relocate")) =>
        /\ Len(Writes(log)) = 1
        /\ log[2].kind = "write"
        /\ cfgfile.exists /\ ~cfgfile.verbatim
        /\ outcome = "NoSectionError" =>
              (has_section(cfgfile.store, "buildout") =>
                  /\ has_option(cfgfile.store, "buildout", "relative-paths")
                  /\ get(cfgfile.store, "buildout", "relative-paths") =
                         relative_paths_value("--relative" \in arguments))

\* the body of relocate's scope raised after its first setting was made, and
\* the file on disk holds that setting
C3_Witness ==
    /\ command = "relocate" /\ pc = "done"
    /\ outcome = "NoSectionError"
    /\ Len(Writes(log)) = 1
    /\ "--relative" \notin arguments
    /\ has_section(cfgfile.store, "buildout")
    /\ get(cfgfile.store, "buildout", "relative-paths") = "false"

\* C4: no step of the build pipeline writes buildout.cfg: the steps of
\* `scripts` only read the store.
C4_ReadOnlyStepsNeverWrite ==
    command = "scripts" => Writes(log) = <<>>

\* the steps `build scripts` is to execute for the options typed, in order
ExpectedSteps(typed) ==
    (IF "--clean" \in typed THEN <<"clean_build">> ELSE <<>>)
    \o <<"create_cache_directories", "bootstrap_if_necessary">>
    \o (IF "--no-submodules" \in typed THEN <<>> ELSE <<"submodule_update">>)
    \o (IF "--no-setup-py" \in typed THEN <<>> ELSE <<"create_setup_py">>)
    \o (IF "--no-scripts" \in typed THEN <<>> ELSE <<"create_scripts">>)
    \o (IF "--no-readline" \in typed THEN <<>> ELSE <<"install_readline">>)

\* C5: a `build scripts` process in which no step fails executes, in the fixed
\* order, exactly the steps its own options permit: clean iff --clean, submodule
\* update iff not --no-submodules, setup file iff not --no-setup-py, console
\* scripts iff not --no-scripts, readline iff not --no-readline.
C5_StepsFollowOwnFlags ==
    (/\ command = "scripts"
     /\ ~({"--newest", "--offline"} \subseteq argv)
     /\ pc = "done"
     /\ outcome \in {"ok", "usage"})
        => StepNames(log) = ExpectedSteps(argv)

\* `bin/python -c import <module>`, the probe of is_module_installed
IsImportProbe(e) == e.name = "bin/python" /\ e.args[1] = "-c"

\* C6 as stated: in a `build scripts` process nothing is executed and no step
\* starts after an external command has exited non-zero.
C6_NothingAfterNonZeroExit ==
    command = "scripts" =>
        \A i \in DOMAIN log :
            (log[i].kind = "exec" /\ ~log[i].ok) => i = Len(log)

\* C6 amended: the same for every external command but the import probe of
\* install_readline, whose non-zero exit means "not installed" and is followed
\* by bin/easy_install; a failed step ends the process at once, in a failed
\* state, and the failed command is not run again.
C6_FailureAbortsPipeline ==
    command = "scripts" =>
        /\ \A i \in DOMAIN log :
              (log[i].kind = "exec" /\ ~log[i].ok) =>
                  \/ /\ i = Len(log)
                     /\ pc = "done"
                     /\ outcome = "ExecutionError"
                  \/ /\ IsImportProbe(log[i])
                     /\ i < Len(log)
                     /\ log[i + 1].name = "bin/easy_install"
                     /\ \A j \in DOMAIN log : j > i + 1 => log[j].kind # "exec"
        /\ outcome \notin {"none", "ok"} => pc = "done"
        /\ \A i, j \in DOMAIN log :
              (i < j /\ log[i].kind = "step" /\ log[j].kind = "step") =>
                  log[i].name # log[j].name

\* a bin/buildout install failed inside the nested parameter scopes and the
\* process ended there
C6_Witness ==
    /\ command = "scripts" /\ pc = "done" /\ outcome = "ExecutionError"
    /\ LastOf(log).name = "bin/buildout"
    /\ ~LastOf(log).ok
    /\ LastOf(Steps(log)).name = "create_setup_py"
    /\ "--no-scripts" \notin arguments
\* bootstrap.py was run by the step taken
RunsBootstrap ==
    /\ Len(Execs(log')) = Len(Execs(log)) + 1
    /\ LastOf(Execs(log')).name = "python"
    /\ LastOf(Execs(log')).args[1] = "bootstrap.py"

\* C7: at the bootstrap gate, without bootstrap.py the process exits with
\* status 1 and bootstrap is not run; with bootstrap.py, bootstrap is run if and
\* only if bin/buildout does not exist or --force-bootstrap is set.
C7_BootstrapGate ==
    [][pc = "bootstrap_if_necessary" =>
          IF "bootstrap.py" \notin fs
             THEN pc' = "done" /\ outcome' = "SystemExit1" /\ ~RunsBootstrap
             ELSE RunsBootstrap <=>
                      ("bin/buildout" \notin fs \/ "--force-bootstrap" \in arguments)]_vars

\* a second `build scripts` process found bin/buildout, had no --force-bootstrap,
\* and passed the gate without running bootstrap
C7_Witness ==
    /\ runs = 2 /\ command = "scripts"
    /\ pc = "buildout_newest_or_offline_context"
    /\ "bin/buildout" \in fs0 /\ "bin/buildout" \in fs
    /\ "--force-bootstrap" \notin arguments
    /\ LastOf(log) = Step("bootstrap_if_necessary")

\* C8: `build scripts --no-submodules --no-readline`, started with bin/buildout
\* and bootstrap.py present and download-cache configured, in which every
\* command run succeeds: it ends with status 0, having executed exactly the
\* cache step, the bootstrap gate, setup-file generation and then console-script
\* generation, without running bootstrap and without the readline commands.
C8_EndToEndScripts ==
    (/\ command = "scripts" /\ pc = "done"
     /\ argv = {"--no-submodules", "--no-readline"}
     /\ {"bin/buildout", "bootstrap.py"} \subseteq fs0
     /\ has_option(parser_read(cfgfile), "buildout", "download-cache")
     /\ Steps(log) # <<>>
     /\ \A i \in DOMAIN log : log[i].ok)
        => /\ outcome = "ok"
           /\ StepNames(log) = <<"create_cache_directories", "bootstrap_if_necessary",
                                 "create_setup_py", "create_scripts">>
           /\ \A i \in DOMAIN log :
                 log[i].kind = "exec" =>
                     log[i].name = "bin/buildout" /\ log[i].args[1] = "install"

\* such a process ended with status 0 after the setup-file install and the
\* console-script install
C8_Witness ==
    /\ command = "scripts" /\ pc = "done" /\ outcome = "ok"
    /\ argv = {"--no-submodules", "--no-readline"}
    /\ {"bin/buildout", "bootstrap.py"} \subseteq fs0
    /\ Len(Execs(log)) = 2
    /\ Execs(log)[1].args = <<"install", "setup.py">>
    /\ Execs(log)[2].args = <<"install", "development-scripts">>

VcsCallsOf(l) == SelectSeq(l, LAMBDA e : e.kind = "vcs")

\* buildout.cfg holds the two settings of relocate for its options
PersistedFor(relative) ==
    /\ cfgfile.exists
    /\ has_option(cfgfile.store, "buildout", "relative-paths")
    /\ has_option(cfgfile.store, "python-distribution", "executable")
    /\ get(cfgfile.store, "buildout", "relative-paths") =
           (IF relative THEN "true" ELSE "false")
    /\ get(cfgfile.store, "python-distribution", "executable") =
           (IF relative THEN "parts/python/bin/python"
            ELSE "${buildout:directory}/parts/python/bin/python")

\* C9: a `build relocate` whose two settings are made ends with buildout.cfg
\* written once and holding relative-paths = 'true' and the relative interpreter
\* path with --relative, 'false' and the absolute path otherwise, whatever the
\* file held before; repository.add/commit are called if and only if
\* --commit-changes is set, the add names buildout.cfg alone, and both come
\* after the file has been written.
C9_Relocate ==
    command = "relocate" =>
        /\ (pc = "done" /\ outcome \in {"ok", "GitException"}) =>
              /\ PersistedFor("--relative" \in arguments)
              /\ Len(Writes(log)) = 1
        /\ (pc = "done" /\ outcome = "ok") =>
              VcsCallsOf(log) =
                  IF "--commit-changes" \in arguments
                     THEN <<Event("vcs", "add", <<>>, <<"buildout.cfg">>, TRUE),
                            Event("vcs", "commit", <<>>,
                                  <<IF "--relative" \in arguments
                                       THEN "Changing shebang to relative paths"
                                       ELSE "Changing shebang to absolute paths">>, TRUE)>>
                     ELSE <<>>
        /\ \A i \in DOMAIN log :
              log[i].kind = "vcs" =>
                  /\ "--commit-changes" \in arguments
                  /\ i > 2 /\ log[2].kind = "write"
                  /\ PersistedFor("--relative" \in arguments)
                  /\ log[i].name = "add" => log[i].args = <<"buildout.cfg">>

\* relocate --relative --commit-changes ended with status 0: the file holds the
\* relative settings and buildout.cfg was added and committed
C9_Witness ==
    /\ command = "relocate" /\ pc = "done" /\ outcome = "ok"
    /\ arguments = {"--relative", "--commit-changes"}
    /\ PersistedFor(TRUE)
    /\ Len(VcsCallsOf(log)) = 2

\* file writes, directory creation, copies and version-control calls
Mutations(l) == SelectSeq(l, LAMBDA e : e.kind \in {"write", "makedirs", "copy", "vcs"})

\* C10: `repository init` without --mkdir, started in a directory that holds
\* .git, writes no file and makes no version-control call at any point, and
\* ends with exit status 1.
C10_InitRefusesExistingRepository ==
    (command = "init" /\ "--mkdir" \notin argv /\ ".git" \in fs0) =>
        /\ Mutations(log) = <<>>
        /\ fs = fs0
        /\ cwd = "."
        /\ pc \in {"init", "_create_subdir_if_necessary", "_exit_if_dotgit_exists", "done"}
        /\ pc = "done" => outcome = "SystemExit1"

\* init was started where .git exists, reached the .git check and exited there
C10_Witness ==
    /\ command = "init" /\ "--mkdir" \notin argv /\ ".git" \in fs0
    /\ pc = "done" /\ outcome = "SystemExit1"
    /\ LastOf(log) = Step("_exit_if_dotgit_exists")

(***************************************************************************)
(* Properties of the repository pipelines                                  *)
(***************************************************************************)

\* the steps of RepositoryPlugin.init, in the order of its body
InitSteps ==
    <<"_exit_if_dotgit_exists", "git_init", "gitflow_init", "release_initial_version",
      "git_checkout_develop", "add_initial_files", "set_buildout_config",
      "generate_src", "append_to_gitignore", "commit_all">>

\* C11: a `repository init` that passed its precondition checks and in which
\* every call made succeeded has executed all the steps of init in order, ends
\* with status 0 after the final commit, and buildout.cfg holds the project
\* values.
C11_InitRunsToFinalCommit ==
    (/\ command = "init" /\ pc = "done"
     /\ Ran("git_init")
     /\ \A i \in DOMAIN log : log[i].ok)
        => /\ outcome = "ok"
           /\ StepNames(log) = InitSteps
           /\ cwd = "." =>
                 \A option \in {"name", "namespace_packages", "version_file",
                                "description", "long_description", "upgrade_code"} :
                     has_option(cfgfile.store, "project", option)

\* the steps of RepositoryPlugin.clone, in the order of its body
CloneSteps == <<"git_clone", "git_checkout_develop", "gitflow_init">>

IsPrefix(a, b) == Len(a) <= Len(b) /\ a = SubSeq(b, 1, Len(a))

\* everything a clone in which every call succeeds does, in order
CloneLog ==
    <<Event("makedirs", "sub", <<>>, <<>>, TRUE),
      Step("git_clone"), Vcs("clone", TRUE),
      Step("git_checkout_develop"), Vcs("checkout", TRUE),
      Step("gitflow_init"), Vcs("gitflow.init", TRUE)>>

\* C12: `repository clone` exits with status 1, having done nothing, when the
\* subdirectory exists, and otherwise makes it and enters it before anything
\* else; inside it it clones, then checks out develop, then initializes the
\* branching model, in that order; it makes no release call, copies no
\* skeleton file and never writes buildout.cfg; when the command has ended,
\* with or without an error, the working directory is the original one.
C12_CloneProtocol ==
    /\ [](command = "clone" =>
            /\ IsPrefix(StepNames(log), CloneSteps)
            /\ \A i \in DOMAIN log :
                  /\ log[i].kind \notin {"write", "copy"}
                  /\ log[i].kind = "vcs" =>
                        log[i].name \in {"clone", "checkout", "gitflow.init"}
                  /\ log[i].kind = "makedirs" => i = 1
            /\ Steps(log) # <<>> => log[1] = Event("makedirs", "sub", <<>>, <<>>, TRUE)
            /\ pc \in {"git_clone", "git_checkout_develop", "gitflow_init"} => cwd = "sub"
            /\ pc = "done" => cwd = "."
            /\ (pc = "done" /\ outcome = "ok") => log = CloneLog
            /\ (pc = "done" /\ outcome # "ok") => IsPrefix(log, CloneLog) \/ ~LastOf(log).ok)
    /\ [][(command = "clone" /\ pc = "_create_subdir_if_necessary") =>
            IF subdir
               THEN pc' = "done" /\ outcome' = "SystemExit1" /\ log' = log /\ cwd' = "."
               ELSE subdir' /\ cwd' = "sub" /\ pc' = "git_clone"]_vars
    /\ [][(command = "clone" /\ command' = "clone") =>
            cfgfile' = cfgfile /\ fs' = fs]_vars

\* a clone went through its three steps inside the new subdirectory and ended
\* with status 0, back in the original directory
C12_Witness ==
    /\ command = "clone" /\ pc = "done" /\ outcome = "ok"
    /\ subdir /\ cwd = "."
    /\ log = CloneLog

\* a version-control call of the command failed
VcsFailed == \E i \in DOMAIN log : log[i].kind = "vcs" /\ ~log[i].ok

(***************************************************************************)
(* Properties of get_package_namespace                                     *)
(***************************************************************************)

\* the positions of the dots of a name
Dots(s) == {i \in 1..Len(s) : s[i] = "."}

\* the position of the k-th dot of a name
KthDot(s, k) == CHOOSE i \in Dots(s) : Cardinality({j \in Dots(s) : j < i}) = k - 1

\* the strict prefixes c1, c1.c2, ..., c1...c(n-1) of a name of n components:
\* what stands before its first dot, before its second dot, and so on
StrictPrefixes(s) == [k \in 1..Cardinality(Dots(s)) |-> SubSeq(s, 1, KthDot(s, k) - 1)]

\* C13: for every dotted name, get_package_namespace returns exactly the strict
\* prefixes of the name in increasing length, without duplicates and without
\* the full name; the list is empty for a name of one component.
C13_NamespaceIsStrictPrefixes ==
    nspc = "returned" =>
        /\ namespaces = StrictPrefixes(dotted)
        /\ \A i, j \in DOMAIN namespaces :
              i < j => Len(namespaces[i]) < Len(namespaces[j])
        /\ \A i \in DOMAIN namespaces : namespaces[i] # dotted
        /\ Dots(dotted) = {} => namespaces = <<>>

\* get_package_namespace('a.b.b') returned ['a', 'a.b']
C13_Witness ==
    /\ nspc = "returned"
    /\ dotted = <<"a", ".", "b", ".", "b">>
    /\ namespaces = << <<"a">>, <<"a", ".", "b">> >>

(***************************************************************************)
(* Properties of the build steps                                           *)
(***************************************************************************)

\* download-cache is configured, and the dist directory it names
CacheConfigured == has_option(parser_read(cfgfile), "buildout", "download-cache")

ConfiguredDist == cache_dist(get(parser_read(cfgfile), "buildout", "download-cache"))

\* the makedirs events among the events a step added to the log
Made(before, after) ==
    {i \in (Len(before) + 1)..Len(after) : after[i].kind = "makedirs"}

\* C14: with download-cache configured, the cache-directory step creates the
\* dist directory when it is absent; run again on what it left, it finds the
\* directory, creates nothing, raises nothing and leaves the paths and
\* buildout.cfg exactly as they were; and whenever the step runs with the
\* directory present it creates nothing, raises nothing, and leaves the paths
\* and the configuration held by buildout.cfg unchanged.
C14_CacheStepIdempotent ==
    /\ []((pc = "create_cache_directories" /\ CacheConfigured
              /\ ConfiguredDist \notin fs) =>
            LET first == cache_directories_step(fs, cfgfile)
                again == cache_directories_step(first.files, first.file)
            IN /\ first.made /\ ~first.raised
               /\ first.files = fs \cup {ConfiguredDist}
               /\ ~again.made /\ ~again.raised
               /\ again.files = first.files
               /\ again.file = first.file)
    /\ [][(pc = "create_cache_directories" /\ CacheConfigured) =>
            /\ pc' = "bootstrap_if_necessary" /\ outcome' = outcome
            /\ IF ConfiguredDist \notin fs
                  THEN /\ fs' = fs \cup {ConfiguredDist}
                       /\ Cardinality(Made(log, log')) = 1
                  ELSE /\ fs' = fs
                       /\ Made(log, log') = {}
                       /\ parser_read(cfgfile') = parser_read(cfgfile)
                       /\ ~cfgfile.verbatim => cfgfile' = cfgfile]_vars

\* a second `build scripts` process ran the cache-directory step where the
\* first had created the dist directory, and created nothing
C14_Witness ==
    /\ runs = 2 /\ command = "scripts" /\ pc = "bootstrap_if_necessary"
    /\ ".cache/dist" \in fs0
    /\ Ran("create_cache_directories")
    /\ Made(<<>>, log) = {}
    /\ outcome = "none"

\* C15: self.arguments, once set by parse_commandline_arguments, is the same
\* mapping for the rest of the process: no step of a command handler adds,
\* removes or changes an entry.
C15_ArgumentsNeverModified ==
    [][pc \notin {"idle", "done"} => arguments' = arguments]_vars

\* C16: a `repository init` or `repository clone` in which a version-control
\* call fails (the checkout of develop among them) ends with exit status 1.
C16_VcsFailureExitsWithStatus1 ==
    (command \in RepositoryCommands /\ pc = "done" /\ VcsFailed)
        => outcome = "SystemExit1"

\* the step during which the i-th event of a run was recorded
StepOf(l, i) ==
    LET before == {j \in 1..i : l[j].kind = "step"}
    IN l[CHOOSE j \in before : \A k \in before : k <= j].name

IsBuildout(e) == e.kind = "exec" /\ e.name = "bin/buildout"

\* C17: in a `build scripts` process a bin/buildout invocation carries
\* 'buildout:develop=' if and only if submodule_update or create_setup_py made
\* it: the invocations of create_scripts (python-distribution install,
\* console-script install) do not carry it, and the token is not in
\* BUILDOUT_PARAMETERS once those two steps are over.
C17_DevelopTokenScoped ==
    command = "scripts" =>
        /\ \A i \in DOMAIN log :
              IsBuildout(log[i]) =>
                  ("buildout:develop=" \in Range(log[i].params)
                      <=> StepOf(log, i) \in {"submodule_update", "create_setup_py"})
        /\ pc \in {"create_scripts", "install_readline", "scripts_return", "done"} =>
              "buildout:develop=" \notin Range(BUILDOUT_PARAMETERS)

\* submodule update and setup-file generation ran bin/buildout with the token,
\* and the two installs of create_scripts after them ran without it
C17_Witness ==
    /\ command = "scripts" /\ pc = "install_readline"
    /\ Len(Execs(log)) >= 4
    /\ \E i, j, k, l \in DOMAIN log :
          /\ i < j /\ j < k /\ k < l
          /\ IsBuildout(log[i]) /\ StepOf(log, i) = "submodule_update"
          /\ "buildout:develop=" \in Range(log[i].params)
          /\ IsBuildout(log[j]) /\ StepOf(log, j) = "create_setup_py"
          /\ "buildout:develop=" \in Range(log[j].params)
          /\ IsBuildout(log[k]) /\ log[k].args = <<"install", "python-distribution">>
          /\ "buildout:develop=" \notin Range(log[k].params)
          /\ IsBuildout(log[l]) /\ log[l].args = <<"install", "development-scripts">>
          /\ "buildout:develop=" \notin Range(log[l].params)

\* steps 5 to 7 of the `scripts` pipeline
NestedSteps == {"submodule_update", "create_setup_py", "create_scripts"}

Added(before, after, Test(_)) ==
    {i \in (Len(before) + 1)..Len(after) : Test(after[i])}

IsPythonInstall(e) == IsBuildout(e) /\ e.args = <<"install", "python-distribution">>

IsScriptsInstall(e) == IsBuildout(e) /\ e.args = <<"install", "development-scripts">>

IsBootstrap(e) == e.kind = "exec" /\ e.name = "python" /\ e.args[1] = "bootstrap.py"

IsInterpreterCheck(e) == e.kind = "check"

\* C19: when create_scripts runs, `buildout install python-distribution` is run
\* if and only if --use-isolated-python is set and (--newest is set or the
\* isolated interpreter is missing), and before the console-script install.
\* With --use-isolated-python, once the console-script install is over the
\* step exits with status 1 if bin/buildout does not exist, and otherwise runs
\* bootstrap.py again if and only if bin/buildout is found to use the isolated
\* interpreter. Without it, the console-script install carries
\* 'buildout:python=buildout', and neither the check of bin/buildout nor a
\* second bootstrap happens.
C19_ConsoleScriptProtocol ==
    [][(pc = "create_scripts" /\ "--no-scripts" \notin arguments) =>
         LET isolated == "--use-isolated-python" \in arguments
             python == Added(log, log', IsPythonInstall)
             scripts == Added(log, log', IsScriptsInstall)
             checks == Added(log, log', IsInterpreterCheck)
             boots == Added(log, log', IsBootstrap)
             installed == \A i \in python \cup scripts : log'[i].ok
         IN /\ python # {} <=>
                  (isolated /\ ("--newest" \in arguments \/ "parts/python" \notin fs))
            /\ \A i \in python : \A j \in scripts : i < j
            /\ Cardinality(python) <= 1 /\ Cardinality(scripts) <= 1
            /\ (python # {} /\ \E i \in python : ~log'[i].ok) => scripts = {}
            /\ isolated =>
                  /\ ~installed => (checks = {} /\ boots = {} /\ pc' = "done")
                  /\ (installed /\ "bin/buildout" \notin fs') =>
                        /\ pc' = "done" /\ outcome' = "SystemExit1"
                        /\ checks = {} /\ boots = {}
                  /\ (installed /\ "bin/buildout" \in fs') =>
                        /\ Cardinality(checks) = 1
                        /\ boots # {} <=> \E i \in checks : log'[i].ok
                        /\ \A i \in checks : \A j \in scripts : j < i
                        /\ \A i \in checks : \A j \in boots : i < j
            /\ ~isolated =>
                  /\ \A i \in scripts :
                        "buildout:python=buildout" \in Range(log'[i].params)
                  /\ checks = {} /\ boots = {}
                  /\ outcome' # "SystemExit1"]_vars

\* with --use-isolated-python and --newest, create_scripts installed the
\* python distribution, then the console scripts, found bin/buildout to use
\* the isolated interpreter and ran bootstrap.py again
C19_Witness ==
    /\ command = "scripts" /\ pc = "install_readline"
    /\ {"--use-isolated-python", "--newest"} \subseteq arguments
    /\ "parts/python" \in fs0
    /\ \E i, j, k, l \in DOMAIN log :
          /\ i < j /\ j < k /\ k < l
          /\ IsPythonInstall(log[i])
          /\ IsScriptsInstall(log[j])
          /\ IsInterpreterCheck(log[k]) /\ log[k].ok
          /\ IsBootstrap(log[l]) /\ log[l].ok

\* C20: whatever its options and however it ends (status 0, or a failure of
\* any step, inside a nested scope or not), a `build scripts` process leaves
\* BUILDOUT_PARAMETERS as it was before the run, ['-s'], and every bin/buildout
\* invocation of the run carries '-s'.
C20_ParametersRestoredAfterScripts ==
    command = "scripts" =>
        /\ pc \in {"clean_build", "create_cache_directories", "bootstrap_if_necessary",
                   "buildout_newest_or_offline_context", "done"} =>
              BUILDOUT_PARAMETERS = <<"-s">>
        /\ \A i \in DOMAIN log :
              IsBuildout(log[i]) =>
                  /\ log[i].params # <<>>
                  /\ log[i].params[1] = "-s"

\* with --newest the setup-file install failed inside the two nested scopes,
\* carrying '-s', '-n' and 'buildout:develop=', and the process ended with the
\* list restored
C20_Witness ==
    /\ command = "scripts" /\ pc = "done" /\ outcome = "ExecutionError"
    /\ "--newest" \in arguments
    /\ IsBuildout(LastOf(log)) /\ ~LastOf(log).ok
    /\ LastOf(log).params = <<"-s", "-n", "buildout:develop=">>
    /\ BUILDOUT_PARAMETERS = <<"-s">>

\* relocate's two settings, as the store st holds them
RelocateSettings(st) ==
    <<IF has_option(st, "buildout", "relative-paths")
         THEN get(st, "buildout", "relative-paths") ELSE None,
      IF has_option(st, "python-distribution", "executable")
         THEN get(st, "python-distribution", "executable") ELSE None>>

\* C21: `build relocate` applies its two settings together or not at all:
\* when it has run, buildout.cfg holds both the relative-paths value and the
\* interpreter path of this run, or both settings are as they were before the
\* run, also when setting one of them raised; and after such a failure no
\* add or commit is made.
C21_RelocateAllOrNothing ==
    [][pc = "relocate" =>
          /\ \/ /\ cfgfile'.exists
                /\ RelocateSettings(cfgfile'.store) =
                       <<relative_paths_value("--relative" \in arguments),
                         executable_value("--relative" \in arguments)>>
             \/ RelocateSettings(parser_read(cfgfile')) =
                    RelocateSettings(parser_read(cfgfile))
          /\ outcome' = "NoSectionError" => VcsCallsOf(log') = <<>>]_vars

====
